---- MODULE Spec2Model ----
(***************************************************************************)
(* Model of SerialJsonRpcBoard (src/board/serial_json_rpc.h): the          *)
(* line-delimited JSON-RPC 2.0 engine that frames bytes read from Serial   *)
(* into messages, validates the envelope, dispatches to the user callback  *)
(* and writes responses.                                                   *)
(*                                                                         *)
(* A byte is a one-character string; a text (C string, String, wire        *)
(* bytes) is a sequence of bytes.                                          *)
(***************************************************************************)
EXTENDS Integers, Sequences, FiniteSets, TLC

(***************************************************************************)
(* Program constants                                                       *)
(***************************************************************************)
PARSE_ERROR == -32700
INVALID_REQUEST == -32600
METHOD_NOT_FOUND == -32601
INVALID_PARAMS == -32602
INTERNAL_ERROR == -32603
SERVER_ERROR == -32000
UNKNOWN_ERROR == 32767

_JSON_RPC_BUFFER_SIZE == 350

_END_OF_JSON_RPC_MESSAGE == "\n"

\* range of the C int the id is coerced to ("max signed 32 len")
INT_MAX == 2147483647
INT_MIN == -INT_MAX - 1

\* range of the C long ("minus + 10 digits")
LONG_MAX == 2147483647
LONG_MIN == -LONG_MAX - 1

(***************************************************************************)
(* Literal texts of the source                                             *)
(***************************************************************************)
T_jsonrpc == <<"j","s","o","n","r","p","c">>
T_2_0 == <<"2",".","0">>
T_id == <<"i","d">>
T_method == <<"m","e","t","h","o","d">>
T_params == <<"p","a","r","a","m","s">>
T_error == <<"e","r","r","o","r">>
T_code == <<"c","o","d","e">>
T_message == <<"m","e","s","s","a","g","e">>
T_data == <<"d","a","t","a">>
T_result == <<"r","e","s","u","l","t">>
T_ParseError == <<"P","a","r","s","e"," ","e","r","r","o","r">>
T_InvalidRequest == <<"I","n","v","a","l","i","d"," ","R","e","q","u","e","s","t">>
T_TooLarge == <<"J","S","O","N"," ","R","P","C"," ","m","e","s","s","a","g","e"," ","i","s"," ","t","o"," ","l","a","r","g","e">>
T_InvalidVersion == <<"I","n","v","a","l","i","d"," ","p","r","o","t","o","c","o","l"," ","v","e","r","s","i","o","n">>
T_InvalidParams == <<"I","n","v","a","l","i","d"," ","p","a","r","a","m","s">>
T_ArrayExpected == <<"A","r","r","a","y"," ","e","x","p","e","c","t","e","d">>
T_true == <<"t","r","u","e">>
T_false == <<"f","a","l","s","e">>
T_null == <<"n","u","l","l">>

\* DeserializationError::c_str()
T_EmptyInput == <<"E","m","p","t","y","I","n","p","u","t">>
T_IncompleteInput == <<"I","n","c","o","m","p","l","e","t","e","I","n","p","u","t">>
T_InvalidInput == <<"I","n","v","a","l","i","d","I","n","p","u","t">>
T_TooDeep == <<"T","o","o","D","e","e","p">>

(***************************************************************************)
(* Character classes of the JSON reader                                    *)
(***************************************************************************)
Digits == <<"0","1","2","3","4","5","6","7","8","9">>
DigitSet == {Digits[k] : k \in 1..10}
LetterSet ==
  {"a","b","c","d","e","f","g","h","i","j","k","l","m","n","o","p","q","r",
   "s","t","u","v","w","x","y","z","A","B","C","D","E","F","G","H","I","J",
   "K","L","M","N","O","P","Q","R","S","T","U","V","W","X","Y","Z"}
SpaceSet == {" ", "\t", "\r", "\n"}
QuoteSet == {"\"", "'"}
NumberCharSet == DigitSet \cup {"+", "-", ".", "e", "E"}
KeyCharSet == DigitSet \cup LetterSet \cup {"_", "."}

\* what the reader sees past the last byte
EndOfInput == ""

DigitValue(c) == CHOOSE k \in 0..9 : Digits[k + 1] = c

(***************************************************************************)
(* JSON value tree (JsonVariant)                                           *)
(***************************************************************************)
JNull == [t |-> "null"]
JBool(b) == [t |-> "bool", b |-> b]
JInt(n) == [t |-> "int", n |-> n]
JStr(s) == [t |-> "str", s |-> s]
JArr(a) == [t |-> "arr", a |-> a]
JObj(o) == [t |-> "obj", o |-> o]
Member(k, v) == [k |-> k, v |-> v]

(***************************************************************************)
(* deserializeJson: the JSON reader called at line 81.  It reads ONE value *)
(* from the front of the input and ignores whatever follows it; the reader *)
(* is lenient (single-quoted strings, unquoted keys).  Comments are        *)
(* disabled in the default build.  Numbers are integers here (the inputs   *)
(* of this model carry no fraction or exponent outside strings), and the   *)
(* escapes \b and \uXXXX are not represented.                              *)
(***************************************************************************)
\* ARDUINOJSON_DEFAULT_NESTING_LIMIT
NestingLimit == 10

\* longest numeric token the reader buffers
NumberTokenMax == 63

Cur(b, i) == IF i <= Len(b) THEN b[i] ELSE EndOfInput

Failure(e, i) == [err |-> e, pos |-> i, val |-> JNull]
Success(v, i) == [err |-> "Ok", pos |-> i, val |-> v]

\* error reported when the reader runs out of input
EndError(b) ==
  IF \A k \in 1..Len(b) : b[k] \in SpaceSet THEN "EmptyInput"
  ELSE "IncompleteInput"

RECURSIVE SkipSpaces(_, _)
SkipSpaces(b, i) ==
  IF Cur(b, i) \in SpaceSet THEN SkipSpaces(b, i + 1) ELSE i

\* index just past the maximal run of bytes of class S starting at i
RECURSIVE ScanRun(_, _, _, _)
ScanRun(b, i, S, max) ==
  IF max > 0 /\ Cur(b, i) \in S THEN ScanRun(b, i + 1, S, max - 1) ELSE i

Unescape(c) ==
  CASE c = "n" -> "\n"
    [] c = "t" -> "\t"
    [] c = "r" -> "\r"
    [] c = "f" -> "\f"
    [] c \in {"\"", "\\", "/", "'"} -> c
    [] OTHER -> EndOfInput

RECURSIVE ParseQuotedString(_, _, _, _)
ParseQuotedString(b, i, stop, acc) ==
  LET c == Cur(b, i) IN
  CASE c = EndOfInput -> Failure("IncompleteInput", i)
    [] c = stop -> Success(JStr(acc), i + 1)
    [] c = "\\" ->
         LET d == Cur(b, i + 1) IN
         IF d = EndOfInput THEN Failure("IncompleteInput", i + 1)
         ELSE IF Unescape(d) = EndOfInput THEN Failure("InvalidInput", i + 1)
         ELSE ParseQuotedString(b, i + 2, stop, Append(acc, Unescape(d)))
    [] OTHER -> ParseQuotedString(b, i + 1, stop, Append(acc, c))

ParseKey(b, i) ==
  LET c == Cur(b, i) IN
  IF c \in QuoteSet THEN ParseQuotedString(b, i + 1, c, <<>>)
  ELSE IF c \in KeyCharSet
       THEN LET j == ScanRun(b, i, KeyCharSet, Len(b))
            IN Success(JStr(SubSeq(b, i, j - 1)), j)
       ELSE Failure("InvalidInput", i)

RECURSIVE ParseKeyword(_, _, _, _, _)
ParseKeyword(b, i, kw, k, v) ==
  IF k > Len(kw) THEN Success(v, i)
  ELSE IF Cur(b, i) = EndOfInput THEN Failure("IncompleteInput", i)
  ELSE IF Cur(b, i) # kw[k] THEN Failure("InvalidInput", i)
  ELSE ParseKeyword(b, i + 1, kw, k + 1, v)

\* value of a run of decimal digits
RECURSIVE DigitsValue(_)
DigitsValue(d) ==
  IF d = <<>> THEN 0
  ELSE 10 * DigitsValue(SubSeq(d, 1, Len(d) - 1)) + DigitValue(d[Len(d)])

\* value of a run of decimal digits after a minus sign
RECURSIVE NegatedValue(_)
NegatedValue(d) ==
  IF d = <<>> THEN 0
  ELSE 10 * NegatedValue(SubSeq(d, 1, Len(d) - 1)) - DigitValue(d[Len(d)])

IsDigits(d) == d # <<>> /\ \A k \in 1..Len(d) : d[k] \in DigitSet

\* parseNumber on an integer token; "none" when the token is no integer
ParseInteger(tok) ==
  IF tok # <<>> /\ tok[1] \in {"-", "+"}
  THEN IF IsDigits(Tail(tok))
       THEN JInt(IF tok[1] = "-" THEN NegatedValue(Tail(tok))
                 ELSE DigitsValue(Tail(tok)))
       ELSE [t |-> "none"]
  ELSE IF IsDigits(tok) THEN JInt(DigitsValue(tok)) ELSE [t |-> "none"]

ParseNumericValue(b, i) ==
  LET j == ScanRun(b, i, NumberCharSet, NumberTokenMax)
      v == ParseInteger(SubSeq(b, i, j - 1))
  IN IF v.t = "none" THEN Failure("InvalidInput", i) ELSE Success(v, j)

\* a repeated key overwrites the member already stored
AddMember(o, k, v) ==
  IF \E n \in 1..Len(o) : o[n].k = k
  THEN [n \in 1..Len(o) |-> IF o[n].k = k THEN Member(k, v) ELSE o[n]]
  ELSE Append(o, Member(k, v))

RECURSIVE ParseVariant(_, _, _)
RECURSIVE ParseArrayItems(_, _, _, _)
RECURSIVE ParseObjectMembers(_, _, _, _)

ParseVariant(b, i0, nest) ==
  LET i == SkipSpaces(b, i0)
      c == Cur(b, i)
  IN CASE c = EndOfInput -> Failure(EndError(b), i)
       [] c = "[" ->
            IF nest = 0 THEN Failure("TooDeep", i)
            ELSE LET j == SkipSpaces(b, i + 1) IN
                 IF Cur(b, j) = EndOfInput THEN Failure("IncompleteInput", j)
                 ELSE IF Cur(b, j) = "]" THEN Success(JArr(<<>>), j + 1)
                 ELSE ParseArrayItems(b, j, nest - 1, <<>>)
       [] c = "{" ->
            IF nest = 0 THEN Failure("TooDeep", i)
            ELSE LET j == SkipSpaces(b, i + 1) IN
                 IF Cur(b, j) = EndOfInput THEN Failure("IncompleteInput", j)
                 ELSE IF Cur(b, j) = "}" THEN Success(JObj(<<>>), j + 1)
                 ELSE ParseObjectMembers(b, j, nest - 1, <<>>)
       [] c \in QuoteSet -> ParseQuotedString(b, i + 1, c, <<>>)
       [] c = "t" -> ParseKeyword(b, i, T_true, 1, JBool(TRUE))
       [] c = "f" -> ParseKeyword(b, i, T_false, 1, JBool(FALSE))
       [] c = "n" -> ParseKeyword(b, i, T_null, 1, JNull)
       [] OTHER -> ParseNumericValue(b, i)

ParseArrayItems(b, i, nest, acc) ==
  LET r == ParseVariant(b, i, nest) IN
  IF r.err # "Ok" THEN r
  ELSE LET j == SkipSpaces(b, r.pos)
           c == Cur(b, j)
       IN CASE c = EndOfInput -> Failure("IncompleteInput", j)
            [] c = "]" -> Success(JArr(Append(acc, r.val)), j + 1)
            [] c = "," -> ParseArrayItems(b, j + 1, nest, Append(acc, r.val))
            [] OTHER -> Failure("InvalidInput", j)

ParseObjectMembers(b, i, nest, acc) ==
  LET k == ParseKey(b, i) IN
  IF k.err # "Ok" THEN k
  ELSE LET j == SkipSpaces(b, k.pos) IN
       IF Cur(b, j) = EndOfInput THEN Failure("IncompleteInput", j)
       ELSE IF Cur(b, j) # ":" THEN Failure("InvalidInput", j)
       ELSE LET r == ParseVariant(b, j + 1, nest) IN
            IF r.err # "Ok" THEN r
            ELSE LET m == SkipSpaces(b, r.pos)
                     c == Cur(b, m)
                     acc2 == AddMember(acc, k.val.s, r.val)
                 IN CASE c = EndOfInput -> Failure("IncompleteInput", m)
                      [] c = "}" -> Success(JObj(acc2), m + 1)
                      [] c = "," ->
                           LET n == SkipSpaces(b, m + 1) IN
                           IF Cur(b, n) = EndOfInput
                           THEN Failure("IncompleteInput", n)
                           ELSE ParseObjectMembers(b, n, nest, acc2)
                      [] OTHER -> Failure("InvalidInput", m)

\* the DeserializationError and the document a read leaves behind
Deserialized(r) == [err |-> r.err, val |-> r.val]

\* deserializeJson(request, serial_read_buffer, serial_read_buffer_pos)
deserializeJson(input, inputSize) ==
  Deserialized(ParseVariant(SubSeq(input, 1, inputSize), 1, NestingLimit))

\* DeserializationError::c_str()
c_str(err) ==
  CASE err = "EmptyInput" -> T_EmptyInput
    [] err = "IncompleteInput" -> T_IncompleteInput
    [] err = "InvalidInput" -> T_InvalidInput
    [] err = "TooDeep" -> T_TooDeep

(***************************************************************************)
(* JsonVariant accessors used by the source                                *)
(***************************************************************************)
\* a C string pointer: NULL, or the text it points to
NULL == [null |-> TRUE, s |-> <<>>]
CStr(s) == [null |-> FALSE, s |-> s]

\* request.containsKey(key)
containsKey(doc, key) ==
  doc.t = "obj" /\ \E n \in 1..Len(doc.o) : doc.o[n].k = key

\* request[key]: the member, or a null variant
GetMember(doc, key) ==
  IF containsKey(doc, key)
  THEN doc.o[CHOOSE n \in 1..Len(doc.o) : doc.o[n].k = key].v
  ELSE JNull

\* variant.as<int>()
as_int(v) ==
  CASE v.t = "int" -> IF v.n >= INT_MIN /\ v.n <= INT_MAX THEN v.n ELSE 0
    [] v.t = "bool" -> IF v.b THEN 1 ELSE 0
    [] v.t = "str" ->
         LET n == ParseInteger(v.s) IN
         IF n.t = "int" /\ n.n >= INT_MIN /\ n.n <= INT_MAX THEN n.n ELSE 0
    [] OTHER -> 0

\* variant.as<const char*>(): NULL unless the variant holds a string
as_cstr(v) == IF v.t = "str" THEN CStr(v.s) ELSE NULL

\* variant | "" : the string held, or the default
or_default(v, dflt) == IF v.t = "str" THEN v.s ELSE dflt

\* variant.is<JsonArray>()
is_JsonArray(v) == v.t = "arr"

\* variant.as<JsonArray>(): the elements; none unless the variant is an array
as_JsonArray(v) == IF v.t = "arr" THEN v.a ELSE <<>>

(***************************************************************************)
(* serializeJson: the JSON writer                                          *)
(***************************************************************************)
RECURSIVE NatToText(_)
NatToText(n) ==
  IF n < 10 THEN <<Digits[n + 1]>>
  ELSE NatToText(n \div 10) \o <<Digits[(n % 10) + 1]>>

\* the digits of -n for n < 0, computed without negating n
RECURSIVE NegToText(_)
NegToText(n) ==
  LET d == (10 - (n % 10)) % 10 IN
  IF n > -10 THEN <<Digits[d + 1]>>
  ELSE NegToText((n + d) \div 10) \o <<Digits[d + 1]>>

IntToText(n) == IF n < 0 THEN <<"-">> \o NegToText(n) ELSE NatToText(n)

EscapeChar(c) ==
  CASE c = "\"" -> <<"\\", "\"">>
    [] c = "\\" -> <<"\\", "\\">>
    [] c = "\n" -> <<"\\", "n">>
    [] c = "\t" -> <<"\\", "t">>
    [] c = "\r" -> <<"\\", "r">>
    [] c = "\f" -> <<"\\", "f">>
    [] OTHER -> <<c>>

RECURSIVE EscapeText(_)
EscapeText(s) ==
  IF s = <<>> THEN <<>> ELSE EscapeChar(Head(s)) \o EscapeText(Tail(s))

QuoteText(s) == <<"\"">> \o EscapeText(s) \o <<"\"">>

RECURSIVE serializeJson(_)
RECURSIVE SerializeItems(_)
RECURSIVE SerializeMembers(_)

serializeJson(v) ==
  CASE v.t = "null" -> T_null
    [] v.t = "bool" -> IF v.b THEN T_true ELSE T_false
    [] v.t = "int" -> IntToText(v.n)
    [] v.t = "str" -> QuoteText(v.s)
    [] v.t = "arr" -> <<"[">> \o SerializeItems(v.a) \o <<"]">>
    [] v.t = "obj" -> <<"{">> \o SerializeMembers(v.o) \o <<"}">>

SerializeItems(a) ==
  IF a = <<>> THEN <<>>
  ELSE IF Len(a) = 1 THEN serializeJson(a[1])
  ELSE serializeJson(a[1]) \o <<",">> \o SerializeItems(Tail(a))

SerializeMembers(o) ==
  IF o = <<>> THEN <<>>
  ELSE LET m == QuoteText(o[1].k) \o <<":">> \o serializeJson(o[1].v) IN
       IF Len(o) = 1 THEN m ELSE m \o <<",">> \o SerializeMembers(Tail(o))

\* variant.as<String>(): the string held, else the value's JSON text
as_String(v) == IF v.t = "str" THEN v.s ELSE serializeJson(v)

(***************************************************************************)
(* Trace events.  log records, in order, everything the board does on the  *)
(* transport (Serial.read, Serial write, Serial.flush) and the calls it    *)
(* makes (deserializeJson, the user callback), bracketed per loop() call   *)
(* that found a byte to read.                                              *)
(***************************************************************************)
EvLoop == [e |-> "loop"]
EvReturn == [e |-> "return"]
EvRead(c) == [e |-> "read", c |-> c]
EvParse(bytes) == [e |-> "parse", bytes |-> bytes]
EvCall(id, method, params) ==
  [e |-> "call", id |-> id, method |-> method, params |-> params]
EvCalled == [e |-> "called"]
EvWrite(bytes) == [e |-> "write", bytes |-> bytes]
EvFlush == [e |-> "flush"]
EvCrash == [e |-> "crash"]
\* a call of the public interface made by the sketch: a send operation with
\* its id, its data and the byte size it computes for the document
EvSend(op, id, data, capacity) ==
  [e |-> "send", op |-> op, id |-> id, data |-> data, capacity |-> capacity]
\* a call of json_array_to_byte_array and what came out of it
EvDecode(raw_json, array_size, out) ==
  [e |-> "decode", raw_json |-> raw_json, array_size |-> array_size,
   out |-> out]

\* result of a routine: the events it produced, and whether it crashed
Done(ev) == [ev |-> ev, crashed |-> FALSE]
Crashed(ev) == [ev |-> Append(ev, EvCrash), crashed |-> TRUE]

(***************************************************************************)
(* Undefined behaviour.  strcmp and strlen on a NULL pointer are undefined:*)
(* depending on the board the read of address 0 traps (the board crashes   *)
(* and writes nothing) or returns garbage and execution proceeds.          *)
(***************************************************************************)
UBOutcomes == {"crash", "proceed"}

(***************************************************************************)
(* Response encoder                                                        *)
(***************************************************************************)
\* _send_response, and the tail of send_error
_send_response(response) ==
  <<EvWrite(serializeJson(response)),
    EvWrite(<<_END_OF_JSON_RPC_MESSAGE>>),
    EvFlush>>

_get_response(id, data_size) ==
  JObj(<<Member(T_jsonrpc, JStr(T_2_0)), Member(T_id, JInt(id))>>)

\* line 226: the byte size the response document is constructed with
response_capacity(data_size) == 34 + data_size + 10

\* line 109
data_size_string(string) == 9 + Len(string) + 2

\* line 124
data_size_bytes(buffer_size) == 9 + 2 + 4 * buffer_size

\* line 141
data_size_longs(buffer_size) == 9 + 2 + 13 * buffer_size

\* line 173, for error_data not NULL (strlen(NULL) is undefined)
error_capacity(error_message, error_data) ==
  86 + Len(error_message) + Len(error_data.s)

send_result_string(id, string) ==
  LET data_size == data_size_string(string)
      response == _get_response(id, data_size)
  IN Done(_send_response(
       JObj(Append(response.o, Member(T_result, JStr(string))))))

\* lines 128-131 with the loop stopping one element early
ArrayOf_DropLast(buffer) == [i \in 1..(Len(buffer) - 1) |-> JInt(buffer[i])]

\* lines 128-131 and 145-148: arr.add(buffer[i]) for each i < buffer_size
ArrayOf(buffer) == [i \in 1..Len(buffer) |-> JInt(buffer[i])]

send_result_bytes(id, buffer) ==
  LET data_size == data_size_bytes(Len(buffer))
      response == _get_response(id, data_size)
  IN Done(_send_response(
       JObj(Append(response.o, Member(T_result, JArr(ArrayOf(buffer)))))))

send_result_longs(id, buffer) ==
  LET data_size == data_size_longs(Len(buffer))
      response == _get_response(id, data_size)
  IN Done(_send_response(
       JObj(Append(response.o, Member(T_result, JArr(ArrayOf(buffer)))))))

(***************************************************************************)
(* json_array_to_byte_array                                                *)
(***************************************************************************)
\* variant.as<uint8_t>(): the number if it fits a byte, else 0
as_uint8(v) ==
  CASE v.t = "int" -> IF v.n >= 0 /\ v.n <= 255 THEN v.n ELSE 0
    [] v.t = "bool" -> IF v.b THEN 1 ELSE 0
    [] OTHER -> 0

\* A size_t value, kept as two 16-bit halves: size_t has 16 bits on AVR
\* boards (hi is then 0) and 32 bits on the others.
SizeBits == {16, 32}
HalfWord == 65536
SizeT(n) == [hi |-> n \div HalfWord, lo |-> n % HalfWord]

\* line 159: return -1 converted to size_t, all bits set
MinusOne(bits) ==
  [hi |-> IF bits = 32 THEN HalfWord - 1 ELSE 0, lo |-> HalfWord - 1]

\* line 158 left out
TooMany_Never(size, array_size) == FALSE

\* line 158
TooMany(size, array_size) == size > array_size

\* lines 161-163: byte_array[i] = json_array[i].as<uint8_t>() for i < size;
\* each byte lands at index i, inside the array or past its end
CopyBytes(json_array, byte_array) ==
  [i \in (DOMAIN byte_array) \cup (0..(Len(json_array) - 1)) |->
     IF i < Len(json_array) THEN as_uint8(json_array[i + 1])
     ELSE byte_array[i]]

\* the value returned, and the caller's array afterwards
json_array_to_byte_array(raw_json, byte_array, array_size, bits) ==
  LET json_array == as_JsonArray(deserializeJson(raw_json, Len(raw_json)).val)
  IN IF TooMany(Len(json_array), array_size)
     THEN [ret |-> MinusOne(bits), byte_array |-> byte_array]
     ELSE [ret |-> SizeT(Len(json_array)),
           byte_array |-> CopyBytes(json_array, byte_array)]

send_error(id, error_code, error_message, error_data, ub) ==
  IF error_data.null /\ ub = "crash" THEN Crashed(<<>>)
  ELSE LET error ==
             <<Member(T_code, JInt(error_code)),
               Member(T_message, JStr(error_message))>>
             \o (IF error_data.null THEN <<>>
                 ELSE <<Member(T_data, JStr(error_data.s))>>)
           response ==
             JObj(<<Member(T_jsonrpc, JStr(T_2_0)),
                    Member(T_id, JInt(id)),
                    Member(T_error, JObj(error))>>)
       IN Done(_send_response(response))

(***************************************************************************)
(* The user callback (RpcProcessor).  It is supplied by the sketch; what   *)
(* it does with a request is its own choice: stay silent, answer with a    *)
(* result, or answer with an error.                                        *)
(***************************************************************************)
T_pong == <<"p","o","n","g">>
T_MethodNotFound == <<"M","e","t","h","o","d"," ","n","o","t"," ","f","o","u","n","d">>

CallbackChoices == {"silent", "result", "error"}

\* What a loop() call leaves to chance: the callback's choice and the outcome
\* of undefined behaviour.  No call meets both (the callback runs only once
\* the version check has passed), so the crash outcome is paired with one
\* callback choice only.
Choices ==
  {[ub |-> "proceed", cb |-> cb] : cb \in CallbackChoices}
  \cup {[ub |-> ub, cb |-> "silent"] : ub \in UBOutcomes}

rpc_processor_callback(choice, request_id, method, params, ub) ==
  CASE choice = "silent" -> Done(<<>>)
    [] choice = "result" -> send_result_string(request_id, T_pong)
    [] choice = "error" ->
         send_error(request_id, METHOD_NOT_FOUND, T_MethodNotFound,
                    CStr(method), ub)

(***************************************************************************)
(* _process_request                                                        *)
(***************************************************************************)
\* line 195: the version check failed
RejectVersion(ch) ==
  send_error(0, INVALID_REQUEST, T_InvalidRequest, CStr(T_InvalidVersion),
             ch.ub)

\* line 199
ExtractId(request) ==
  IF containsKey(request, T_id) THEN as_int(GetMember(request, T_id)) ELSE 0

\* line 205 answering with id 0 instead of the request's id
RejectParams_NoId(request_id, ch) ==
  send_error(0, INVALID_PARAMS, T_InvalidParams, CStr(T_ArrayExpected),
             ch.ub)

\* line 205: params is not an array
RejectParams(request_id, ch) ==
  send_error(request_id, INVALID_PARAMS, T_InvalidParams,
             CStr(T_ArrayExpected), ch.ub)

\* line 217: the callback runs to completion inside _process_request
Invoke(call, called) ==
  IF called.crashed THEN [called EXCEPT !.ev = <<call>> \o @]
  ELSE Done((<<call>> \o called.ev) \o <<EvCalled>>)

\* lines 210-215 with the copy loop stopping one element early
ParamsArray_DropLast(params_json_array) ==
  [i \in 1..(Len(params_json_array) - 1) |->
     as_String(params_json_array[i])]

\* lines 210-215: String params_array[params_size]
ParamsArray(params_json_array) ==
  [i \in 1..Len(params_json_array) |-> as_String(params_json_array[i])]

\* lines 210-217: convert the params and call the callback
Dispatch(request_id, method, params, ch) ==
  Invoke(EvCall(request_id, method, ParamsArray(as_JsonArray(params))),
         rpc_processor_callback(ch.cb, request_id, method,
                                ParamsArray(as_JsonArray(params)), ch.ub))

\* _process_request without the check of params at line 204
_process_request_NoParamsCheck(request, ch) ==
  LET version == as_cstr(GetMember(request, T_jsonrpc))
      request_id == ExtractId(request)
      method == or_default(GetMember(request, T_method), <<>>)
      params == GetMember(request, T_params)
  IN IF ~containsKey(request, T_jsonrpc) THEN RejectVersion(ch)
     ELSE IF version.null
          THEN IF ch.ub = "crash" THEN Crashed(<<>>) ELSE RejectVersion(ch)
     ELSE IF version.s # T_2_0 THEN RejectVersion(ch)
     ELSE Dispatch(request_id, method, params, ch)

_process_request(request, ch) ==
  LET version == as_cstr(GetMember(request, T_jsonrpc))
      request_id == ExtractId(request)
      method == or_default(GetMember(request, T_method), <<>>)
      params == GetMember(request, T_params)
  IN IF ~containsKey(request, T_jsonrpc) THEN RejectVersion(ch)
     ELSE IF version.null
          THEN \* strcmp(NULL, "2.0")
               IF ch.ub = "crash" THEN Crashed(<<>>) ELSE RejectVersion(ch)
     ELSE IF version.s # T_2_0 THEN RejectVersion(ch)
     ELSE IF ~is_JsonArray(params) THEN RejectParams(request_id, ch)
     ELSE Dispatch(request_id, method, params, ch)

(***************************************************************************)
(* loop                                                                    *)
(***************************************************************************)
\* contents of a char array not yet written
Indeterminate == "?"

\* the first n bytes of the receive buffer, as a text
BufferText(buf, n) == [k \in 1..n |-> buf[k - 1]]

\* lines 83-84: deserializeJson failed
RejectParse(err, ch) ==
  send_error(0, PARSE_ERROR, T_ParseError, CStr(c_str(err)), ch.ub)

\* s: the board during a loop() call (buf, pos, ev, n: bytes read so far,
\* returned: the call hit a return statement, crashed).

\* lines 82-87: answer the request read from the buffer
Respond(request, ch) ==
  IF request.err # "Ok" THEN RejectParse(request.err, ch)
  ELSE _process_request(request.val, ch)

\* lines 88-91 without the reset of the cursor
Complete_KeepCursor(s, r) ==
  IF r.crashed THEN [s EXCEPT !.ev = @ \o r.ev, !.crashed = TRUE]
  ELSE [s EXCEPT !.ev = (@ \o r.ev) \o <<EvReturn>>, !.returned = TRUE]

\* lines 88-91: after the answer r, reset the cursor and return
Complete(s, r) ==
  IF r.crashed THEN [s EXCEPT !.ev = @ \o r.ev, !.crashed = TRUE]
  ELSE [s EXCEPT !.ev = (@ \o r.ev) \o <<EvReturn>>, !.pos = 0,
                 !.returned = TRUE]

\* lines 80-91: the byte read is the delimiter
OnDelimiter(s, ch) ==
  Complete([s EXCEPT !.ev = Append(@, EvParse(BufferText(s.buf, s.pos)))],
           Respond(deserializeJson(BufferText(s.buf, s.pos), s.pos), ch))

\* line 95 with > for >=
BufferFull_Late(pos) == pos > _JSON_RPC_BUFFER_SIZE

\* line 95 left out: the buffer is never found full
BufferFull_Never(pos) == FALSE

\* line 95
BufferFull(pos) == pos >= _JSON_RPC_BUFFER_SIZE

\* lines 96-98 without the reset of the cursor
Overflowed_KeepCursor(s, r) ==
  [s EXCEPT !.ev = (@ \o r.ev) \o <<EvReturn>>, !.returned = TRUE]

\* lines 96-97 without the return of line 98
Overflowed_NoReturn(s, r) == [s EXCEPT !.ev = @ \o r.ev, !.pos = 0]

\* lines 97-98: after the error response r, reset the cursor and return
Overflowed(s, r) ==
  [s EXCEPT !.ev = (@ \o r.ev) \o <<EvReturn>>, !.pos = 0, !.returned = TRUE]

\* lines 96-98: buffer overflow
OnOverflow(s, ch) ==
  Overflowed(s, send_error(0, INVALID_REQUEST, T_InvalidRequest,
                           CStr(T_TooLarge), ch.ub))

\* line 102 with a cursor that wraps around at the end of the array
StoreByte_Wrap(s, c) ==
  [s EXCEPT !.buf[s.pos] = c, !.pos = (@ + 1) % _JSON_RPC_BUFFER_SIZE]

\* line 102 without the increment of the cursor
StoreByte_NoAdvance(s, c) == [s EXCEPT !.buf[s.pos] = c]

\* line 102: serial_read_buffer[serial_read_buffer_pos++] = c.  The byte
\* lands at index pos wherever that is: a write past the end of the array
\* shows as an index outside 0.._JSON_RPC_BUFFER_SIZE-1 holding a byte.
StoreByte(s, c) ==
  IF s.pos \in DOMAIN s.buf
  THEN [s EXCEPT !.buf[s.pos] = c, !.pos = @ + 1]
  ELSE [s EXCEPT !.buf = [i \in (DOMAIN s.buf) \cup {s.pos} |->
                            IF i = s.pos THEN c ELSE s.buf[i]],
                 !.pos = @ + 1]

\* lines 77-102 with the overflow test (95) ahead of the delimiter test (79)
LoopBody_OverflowFirst(s, ch, avail) ==
  LET c == avail[s.n + 1]
      s1 == [s EXCEPT !.n = @ + 1, !.ev = Append(@, EvRead(c))]
  IN IF BufferFull(s1.pos) THEN OnOverflow(s1, ch)
     ELSE IF c = _END_OF_JSON_RPC_MESSAGE THEN OnDelimiter(s1, ch)
     ELSE StoreByte(s1, c)

\* One iteration of the while loop: lines 77-102
LoopBody(s, ch, avail) ==
  LET c == avail[s.n + 1]
      s1 == [s EXCEPT !.n = @ + 1, !.ev = Append(@, EvRead(c))]
  IN IF c = _END_OF_JSON_RPC_MESSAGE THEN OnDelimiter(s1, ch)
     ELSE IF BufferFull(s1.pos) THEN OnOverflow(s1, ch)
     ELSE StoreByte(s1, c)

\* The iterations over the available bytes avail[lo..hi], in order, until
\* one of them returns (evaluated by halving the range).
RECURSIVE LoopIterate(_, _, _, _, _)
LoopIterate(s, avail, lo, hi, ch) ==
  IF s.returned \/ s.crashed \/ lo > hi THEN s
  ELSE IF lo = hi THEN LoopBody(s, ch, avail)
  ELSE LET mid == (lo + hi) \div 2 IN
       LoopIterate(LoopIterate(s, avail, lo, mid, ch), avail, mid + 1, hi, ch)

\* line 76: Serial.available() is false, the call falls off the loop
WhileExit(s) ==
  IF s.returned \/ s.crashed THEN s
  ELSE [s EXCEPT !.ev = Append(@, EvReturn), !.returned = TRUE]

\* loop(): while (Serial.available()) { ... }
loop(s, avail, ch) == WhileExit(LoopIterate(s, avail, 1, Len(avail), ch))

(***************************************************************************)
(* Inputs: the byte chunks the host may put on the serial line             *)
(***************************************************************************)
Quoted(s) == <<"\"">> \o s \o <<"\"">>
Pair(k, v) == Quoted(k) \o <<":">> \o v

RECURSIVE Join(_)
Join(parts) ==
  IF Len(parts) = 1 THEN parts[1]
  ELSE parts[1] \o <<",">> \o Join(Tail(parts))

Object(parts) == <<"{">> \o Join(parts) \o <<"}">>

T_ping == <<"p","i","n","g">>

P_v20 == Pair(T_jsonrpc, Quoted(T_2_0))
P_v10 == Pair(T_jsonrpc, Quoted(<<"1",".","0">>))
P_vnum == Pair(T_jsonrpc, <<"2">>)
P_id7 == Pair(T_id, <<"7">>)
P_idm3 == Pair(T_id, <<"-","3">>)
P_ping == Pair(T_method, Quoted(T_ping))
P_none == Pair(T_params, <<"[","]">>)
P_four == Pair(T_params,
               <<"[","\"","a","\"",",","1","2",",","t","r","u","e",",","[","1","]","]">>)
P_object == Pair(T_params, <<"{","}">>)

R_ping == Object(<<P_v20, P_id7, P_ping, P_none>>)
R_bare == Object(<<P_v20, P_four>>)
R_noversion == Object(<<P_id7, P_ping, P_none>>)
R_v10 == Object(<<P_v10, P_id7, P_ping, P_none>>)
R_vnum == Object(<<P_vnum, P_id7, P_ping, P_none>>)
R_objparams == Object(<<P_v20, P_idm3, P_ping, P_object>>)
R_noparams == Object(<<P_v20, P_ping>>)
R_notjson == <<"n","o","t"," ","j","s","o","n">>
R_empty == <<>>

\* message bodies the host sends, each followed by the delimiter
Messages ==
  {R_ping, R_bare, R_noversion, R_v10, R_vnum, R_objparams, R_noparams,
   R_notjson, R_empty}

\* a run of n bytes holding no delimiter
Filler(n) == [k \in 1..n |-> "x"]

FillerLens ==
  {_JSON_RPC_BUFFER_SIZE, _JSON_RPC_BUFFER_SIZE + 1,
   _JSON_RPC_BUFFER_SIZE + 2, 2 * _JSON_RPC_BUFFER_SIZE + 2}

Chunks ==
  {Append(m, _END_OF_JSON_RPC_MESSAGE) : m \in Messages}
  \cup {Filler(n) : n \in FillerLens}

\* number of chunks the host sends
MaxArrivals == 2

(***************************************************************************)
(* State                                                                   *)
(***************************************************************************)
VARIABLES
  serial_read_buffer,      \* char[_JSON_RPC_BUFFER_SIZE], indexed from 0
  serial_read_buffer_pos,  \* write cursor
  rx,                      \* bytes Serial has received and not yet read
  log,                     \* trace of events so far
  crashed,                 \* the board trapped on undefined behaviour
  arrivals                 \* number of chunks sent by the host

vars == <<serial_read_buffer, serial_read_buffer_pos, rx, log, crashed,
          arrivals>>

\* the constructor: only the cursor is initialised
Init ==
  /\ serial_read_buffer =
       [i \in 0..(_JSON_RPC_BUFFER_SIZE - 1) |-> Indeterminate]
  /\ serial_read_buffer_pos = 0
  /\ rx = <<>>
  /\ log = <<>>
  /\ crashed = FALSE
  /\ arrivals = 0

\* the host's bytes reach the UART
Arrive(chunk) ==
  /\ ~crashed
  /\ arrivals < MaxArrivals
  /\ rx' = rx \o chunk
  /\ arrivals' = arrivals + 1
  /\ UNCHANGED <<serial_read_buffer, serial_read_buffer_pos, log, crashed>>

\* the board as loop() finds it
Entry ==
  [buf |-> serial_read_buffer, pos |-> serial_read_buffer_pos,
   ev |-> <<EvLoop>>, n |-> 0, returned |-> FALSE, crashed |-> FALSE]

\* the board as loop() leaves it
Exit(s) ==
  /\ serial_read_buffer' = s.buf
  /\ serial_read_buffer_pos' = s.pos
  /\ rx' = SubSeq(rx, s.n + 1, Len(rx))
  /\ log' = IF rx = <<>> THEN log ELSE log \o s.ev
  /\ crashed' = s.crashed

\* one call of loop() from the sketch
Loop ==
  /\ ~crashed
  /\ \E ch \in Choices : Exit(loop(Entry, rx, ch))
  /\ UNCHANGED arrivals

Next ==
  \/ \E chunk \in Chunks : Arrive(chunk)
  \/ Loop

Spec == Init /\ [][Next]_vars

(***************************************************************************)
(* The public interface called directly.  A sketch may call the send       *)
(* operations and json_array_to_byte_array at any time; SendSpec is the    *)
(* board, idle or in the middle of a message, on which the sketch makes    *)
(* MaxCalls such calls with arguments drawn from the sets below.           *)
(***************************************************************************)
SendIds == {0, 7, INT_MIN}

\* a string of characters that the JSON writer must escape
T_Escaped == [k \in 1..20 |-> IF k % 2 = 1 THEN "\"" ELSE "\\"]

SendStrings == {<<>>, T_pong, T_Escaped}
SendByteArrays == {<<>>, <<255>>, <<7, 0, 255, 10, 100>>}
SendLongArrays == {<<>>, <<LONG_MIN>>, <<LONG_MAX, LONG_MIN, 0, -1>>}
SendCodes == {METHOD_NOT_FOUND, INT_MIN}
SendData == {NULL, CStr(T_pong), CStr(T_Escaped)}

DecodeInputs ==
  {<<"[","1",",","2",",","3","]">>,
   <<"[","]">>,
   <<"[","2","5","5",",","0",",","7",",","9","]">>,
   R_notjson}
DecodeSizes == {0, 2, 3, 4}

\* number of calls the sketch makes
MaxCalls == 1

\* the caller's uint8_t array of array_size bytes, not yet written
Fresh(array_size) == [i \in 0..(array_size - 1) |-> Indeterminate]

\* the receive buffer after the first n bytes of a request were stored
Partial(n) ==
  [i \in 0..(_JSON_RPC_BUFFER_SIZE - 1) |->
     IF i < n THEN R_ping[i + 1] ELSE Indeterminate]
PartialLens == {0, 3}

InitSend ==
  /\ \E n \in PartialLens :
       /\ serial_read_buffer = Partial(n)
       /\ serial_read_buffer_pos = n
  /\ rx = <<>>
  /\ log = <<>>
  /\ crashed = FALSE
  /\ arrivals = 0

IsApiCall(e) == e.e = "send" \/ e.e = "decode"

\* the sketch may make a call
CanCall == ~crashed /\ Len(SelectSeq(log, IsApiCall)) < MaxCalls

\* the trace after a call: the record of the call, then what it did
Logged(call, r) == (log \o <<call>>) \o r.ev

\* what no operation of the interface touches
receiver == <<serial_read_buffer, serial_read_buffer_pos, rx, arrivals>>

SendResultString(id, string) ==
  /\ CanCall
  /\ log' = Logged(EvSend("send_result_string", id, string,
                          response_capacity(data_size_string(string))),
                   send_result_string(id, string))
  /\ crashed' = FALSE
  /\ UNCHANGED receiver

SendResultBytes(id, buffer) ==
  /\ CanCall
  /\ log' = Logged(EvSend("send_result_bytes", id, buffer,
                          response_capacity(data_size_bytes(Len(buffer)))),
                   send_result_bytes(id, buffer))
  /\ crashed' = FALSE
  /\ UNCHANGED receiver

SendResultLongs(id, buffer) ==
  /\ CanCall
  /\ log' = Logged(EvSend("send_result_longs", id, buffer,
                          response_capacity(data_size_longs(Len(buffer)))),
                   send_result_longs(id, buffer))
  /\ crashed' = FALSE
  /\ UNCHANGED receiver

SendError(id, error_code, error_message, error_data, ub) ==
  /\ CanCall
  /\ log' = Logged(EvSend("send_error", id,
                          [code |-> error_code, message |-> error_message,
                           data |-> error_data],
                          error_capacity(error_message, error_data)),
                   send_error(id, error_code, error_message, error_data, ub))
  /\ crashed' = (error_data.null /\ ub = "crash")
  /\ UNCHANGED receiver

JsonArrayToByteArray(raw_json, array_size, bits) ==
  /\ CanCall
  /\ log' = Append(log, EvDecode(raw_json, array_size,
                json_array_to_byte_array(raw_json, Fresh(array_size),
                                         array_size, bits)))
  /\ UNCHANGED <<crashed, receiver>>

NextSend ==
  \/ \E id \in SendIds, string \in SendStrings : SendResultString(id, string)
  \/ \E id \in SendIds, buffer \in SendByteArrays : SendResultBytes(id, buffer)
  \/ \E id \in SendIds, buffer \in SendLongArrays : SendResultLongs(id, buffer)
  \/ \E id \in SendIds, code \in SendCodes, data \in SendData,
        ub \in UBOutcomes :
          SendError(id, code, T_MethodNotFound, data, ub)
  \/ \E raw_json \in DecodeInputs, array_size \in DecodeSizes,
        bits \in SizeBits :
          JsonArrayToByteArray(raw_json, array_size, bits)

SendSpec == InitSend /\ [][NextSend]_vars

(***************************************************************************)
(* Reading the trace                                                       *)
(***************************************************************************)
IsRead(e) == e.e = "read"
IsDelimiterRead(e) == e.e = "read" /\ e.c = _END_OF_JSON_RPC_MESSAGE
IsParse(e) == e.e = "parse"
IsCall(e) == e.e = "call"
\* a serialized document put on the wire (not the lone delimiter byte)
IsEnvelope(e) == e.e = "write" /\ e.bytes # <<_END_OF_JSON_RPC_MESSAGE>>

\* positions in the trace of the events satisfying P
Where(P(_)) == {i \in 1..Len(log) : P(log[i])}

\* the last position of S before i, 0 if there is none
Before(S, i) ==
  IF \E k \in S : k < i
  THEN CHOOSE k \in S : k < i /\ \A m \in S : m < i => m <= k
  ELSE 0

\* the first position of S after i, 0 if there is none
After(S, i) ==
  IF \E k \in S : k > i
  THEN CHOOSE k \in S : k > i /\ \A m \in S : m > i => m >= k
  ELSE 0

\* the bytes read at trace positions i+1 .. j-1
InputBetween(i, j) ==
  LET reads == SelectSeq(SubSeq(log, i + 1, j - 1), IsRead)
  IN [k \in 1..Len(reads) |-> reads[k].c]

\* number of events satisfying P at trace positions i+1 .. j
CountBetween(P(_), i, j) == Len(SelectSeq(SubSeq(log, i + 1, j), P))

\* the document an envelope carries, as a JSON reader on the host sees it
Decoded(e) == deserializeJson(e.bytes, Len(e.bytes)).val

\* e is an error response with this id and code
IsError(e, id, code) ==
  /\ IsEnvelope(e)
  /\ GetMember(Decoded(e), T_jsonrpc) = JStr(T_2_0)
  /\ GetMember(Decoded(e), T_id) = JInt(id)
  /\ GetMember(GetMember(Decoded(e), T_error), T_code) = JInt(code)

ErrorData(e) == GetMember(GetMember(Decoded(e), T_error), T_data)
ErrorMessage(e) == GetMember(GetMember(Decoded(e), T_error), T_message)

IsOverflowError(e) ==
  IsError(e, 0, INVALID_REQUEST) /\ ErrorData(e) = JStr(T_TooLarge)

DelimiterReads == Where(IsDelimiterRead)

\* positions where a loop() call ends: it returns, or the board traps
IsCallEnd(e) == e.e = "return" \/ e.e = "crash"
CallEnds == Where(IsCallEnd)

\* reads after which the cursor is back at 0: a delimiter, or the byte that
\* found the buffer full
Resets ==
  {i \in 1..(Len(log) - 1) :
     IsRead(log[i]) /\ (IsParse(log[i + 1]) \/ IsOverflowError(log[i + 1]))}

(***************************************************************************)
(* C1 (as stated): a message is handed to the parser exactly when a        *)
(* delimiter is read, it is within capacity, and its bytes are the input   *)
(* bytes between the previous delimiter and this one.                      *)
(***************************************************************************)
C1_Original ==
  /\ \A i \in Where(IsParse) : i > 1 /\ IsDelimiterRead(log[i - 1])
  /\ \A d \in DelimiterReads :
       /\ d < Len(log) /\ IsParse(log[d + 1])
       /\ Len(log[d + 1].bytes) <= _JSON_RPC_BUFFER_SIZE
       /\ log[d + 1].bytes = InputBetween(Before(DelimiterReads, d), d)

(***************************************************************************)
(* C1 (amended): a message is handed to the parser exactly when a          *)
(* delimiter is read, it is within capacity, and its bytes are the input   *)
(* bytes read since the last reset of the cursor (the previous delimiter,  *)
(* or the byte that overflowed the buffer, which is itself dropped).       *)
(***************************************************************************)
C1_Framing ==
  /\ \A i \in Where(IsParse) : i > 1 /\ IsDelimiterRead(log[i - 1])
  /\ \A d \in DelimiterReads :
       /\ d < Len(log) /\ IsParse(log[d + 1])
       /\ Len(log[d + 1].bytes) <= _JSON_RPC_BUFFER_SIZE
       /\ log[d + 1].bytes = InputBetween(Before(Resets, d), d)

\* a message was handed over after an overflow had reset the cursor
C1_Witness ==
  \E d \in DelimiterReads :
    /\ Before(Resets, d) > Before(DelimiterReads, d)
    /\ Len(log[d + 1].bytes) > 0

(***************************************************************************)
(* The message most recently completed by a delimiter                      *)
(***************************************************************************)
\* trace position of the last delimiter read, 0 if none
LastDelimiter == Before(DelimiterReads, Len(log) + 1)

\* trace position where the handling of the message before the last one
\* ended (the end of the call that read its delimiter), 0 if there is none
MessageStart ==
  IF Before(DelimiterReads, LastDelimiter) = 0 THEN 0
  ELSE After(CallEnds, Before(DelimiterReads, LastDelimiter))

\* the last event of the trace belongs to the call that read LastDelimiter
JustHandled ==
  /\ LastDelimiter > 0
  /\ \A i \in (LastDelimiter + 1)..Len(log) : log[i].e # "loop"

\* the input bytes between the last two delimiters
LastMessage == InputBetween(MessageStart, LastDelimiter)

\* the bytes handed to the parser at the last delimiter
LastHanded == log[LastDelimiter + 1].bytes

\* events of a kind since the start of the last message
SinceStart(P(_)) == CountBetween(P, MessageStart, Len(log))

IsErrorEnvelope(e) == IsEnvelope(e) /\ containsKey(Decoded(e), T_error)

\* the envelope is well-formed: version "2.0" and params an array
ValidEnvelope(doc) ==
  /\ GetMember(doc, T_jsonrpc) = JStr(T_2_0)
  /\ is_JsonArray(GetMember(doc, T_params))

Parses(bytes) == deserializeJson(bytes, Len(bytes)).err = "Ok"

ValidRequest(bytes) ==
  Parses(bytes) /\ ValidEnvelope(deserializeJson(bytes, Len(bytes)).val)

\* too large for the buffer, not JSON, or not a valid envelope
Rejected(bytes) ==
  Len(bytes) > _JSON_RPC_BUFFER_SIZE \/ ~ValidRequest(bytes)

(***************************************************************************)
(* C2: every delimiter-terminated input message the core rejects (too      *)
(* large, not JSON, invalid envelope) gets exactly one error response, no  *)
(* callback invocation, and leaves the cursor at 0.                        *)
(***************************************************************************)
C2_OneErrorPerRejected ==
  (JustHandled /\ Rejected(LastMessage)) =>
     /\ SinceStart(IsEnvelope) = 1
     /\ SinceStart(IsErrorEnvelope) = 1
     /\ SinceStart(IsCall) = 0
     /\ serial_read_buffer_pos = 0

(***************************************************************************)
(* Runs of bytes holding no delimiter                                      *)
(***************************************************************************)
\* number of bytes read since the last delimiter (since the start if none)
RunLength == Len(InputBetween(LastDelimiter, Len(log) + 1))

\* overflow errors written since the last delimiter
RunOverflows == CountBetween(IsOverflowError, LastDelimiter, Len(log))

(***************************************************************************)
(* C3 (as stated): from idle, a run of L >= capacity bytes without a       *)
(* delimiter produces the overflow error exactly once over the whole run.  *)
(***************************************************************************)
C3_Original ==
  RunLength >= _JSON_RPC_BUFFER_SIZE => RunOverflows = 1

(***************************************************************************)
(* C3 (amended): from idle, a run of L bytes without a delimiter produces  *)
(* the overflow error exactly L div (capacity + 1) times: not for          *)
(* L = capacity, once for capacity < L <= 2 * capacity + 1, and once more  *)
(* for every further capacity + 1 bytes.                                   *)
(***************************************************************************)
C3_OverflowCount ==
  RunOverflows = RunLength \div (_JSON_RPC_BUFFER_SIZE + 1)

\* a run long enough to overflow twice has been read
C3_Witness ==
  /\ RunLength >= 2 * (_JSON_RPC_BUFFER_SIZE + 1)
  /\ RunOverflows = 2

(***************************************************************************)
(* Requests that pass every check, used to probe recovery                  *)
(***************************************************************************)
WellFormed == {R_ping, R_bare}

\* m is a run of at least capacity bytes followed directly by request R
IsRunThen(m, R) ==
  /\ Len(m) >= _JSON_RPC_BUFFER_SIZE + Len(R)
  /\ SubSeq(m, Len(m) - Len(R) + 1, Len(m)) = R

(***************************************************************************)
(* C4 (as stated): after L >= capacity bytes without a delimiter, fed from *)
(* idle, a well-formed request and its delimiter fed right after are       *)
(* accumulated from position 0, handed over intact and dispatched.         *)
(***************************************************************************)
C4_Original ==
  \A R \in WellFormed :
    (JustHandled /\ IsRunThen(LastMessage, R)) =>
       LastHanded = R /\ SinceStart(IsCall) = 1

(***************************************************************************)
(* C4 (amended): that holds exactly when L is a multiple of capacity + 1   *)
(* (L = capacity + 1, 2 * (capacity + 1), ...), for then the last byte of  *)
(* the run is the one that overflows and resets the cursor.  For any other *)
(* L >= capacity the request is not handed over intact: it follows the     *)
(* L mod (capacity + 1) bytes left in the buffer, or loses its first byte. *)
(***************************************************************************)
C4_Recovery ==
  \A R \in WellFormed :
    (JustHandled /\ IsRunThen(LastMessage, R)) =>
       IF (Len(LastMessage) - Len(R)) % (_JSON_RPC_BUFFER_SIZE + 1) = 0
       THEN LastHanded = R /\ SinceStart(IsCall) = 1
       ELSE LastHanded # R

\* a request fed after capacity + 1 filler bytes was dispatched
C4_Witness ==
  /\ JustHandled
  /\ IsRunThen(LastMessage, R_ping)
  /\ LastHanded = R_ping
  /\ SinceStart(IsCall) = 1

(***************************************************************************)
(* C5: the callback is invoked only for a message that parsed and passed   *)
(* validation, at most once, inside the loop() call that read the          *)
(* message's delimiter, and nothing is read from the transport between     *)
(* that delimiter and the callback's return.                               *)
(***************************************************************************)
IsCalled(e) == e.e = "called"

C5_CallbackSynchronous ==
  \A i \in Where(IsCall) :
    /\ i >= 3 /\ IsParse(log[i - 1]) /\ IsDelimiterRead(log[i - 2])
    /\ ValidRequest(log[i - 1].bytes)
    /\ After(Where(IsCalled), i) > 0
    /\ CountBetween(IsRead, i, After(Where(IsCalled), i)) = 0
    /\ CountBetween(IsCall, i, After(Where(IsCalled), i)) = 0
    /\ After(CallEnds, i) = After(Where(IsCalled), i) + 1

\* the callback has just run while more bytes were waiting in the transport
C5_Witness ==
  /\ Len(log) >= 2
  /\ log[Len(log)].e = "return"
  /\ IsCalled(log[Len(log) - 1])
  /\ rx # <<>>

(***************************************************************************)
(* C6: a loop() call that reads a delimiter handles that one message,      *)
(* resets the cursor to 0 and returns without reading another byte.        *)
(***************************************************************************)
C6_OneMessagePerCall ==
  \A d \in DelimiterReads :
    /\ After(CallEnds, d) > 0
    /\ log[After(CallEnds, d)].e = "return"
    /\ CountBetween(IsRead, d, After(CallEnds, d)) = 0
    /\ CountBetween(IsParse, d, After(CallEnds, d)) = 1
    /\ (After(CallEnds, d) = Len(log) => serial_read_buffer_pos = 0)

(***************************************************************************)
(* The request handed to the parser at the last delimiter, and the answer  *)
(* the call that read it gave                                              *)
(***************************************************************************)
LastDoc == deserializeJson(LastHanded, Len(LastHanded)).val

\* what the request carries: its id (0 if absent), its method ("" if absent)
IdOf(doc) ==
  IF containsKey(doc, T_id) THEN as_int(GetMember(doc, T_id)) ELSE 0

MethodOf(doc) ==
  IF GetMember(doc, T_method).t = "str" THEN GetMember(doc, T_method).s
  ELSE <<>>

\* events of a kind in the call that read the last delimiter
InLastCall(P(_)) == CountBetween(P, LastDelimiter, Len(log))

IsInvalidRequestError(e) == IsError(e, 0, INVALID_REQUEST)

IsInvalidParamsError(e) ==
  /\ IsError(e, IdOf(LastDoc), INVALID_PARAMS)
  /\ ErrorMessage(e) = JStr(T_InvalidParams)

IsParseError(e) ==
  IsError(e, 0, PARSE_ERROR) /\ ErrorMessage(e) = JStr(T_ParseError)

(***************************************************************************)
(* C7: a parsed request without a jsonrpc member, or whose jsonrpc value   *)
(* is not exactly "2.0", gets exactly one InvalidRequest (-32600) error    *)
(* response with id 0, whatever its own id, and no callback invocation.    *)
(***************************************************************************)
C7_InvalidVersion ==
  (/\ JustHandled
   /\ Parses(LastHanded)
   /\ GetMember(LastDoc, T_jsonrpc) # JStr(T_2_0)) =>
     /\ InLastCall(IsEnvelope) = 1
     /\ InLastCall(IsInvalidRequestError) = 1
     /\ InLastCall(IsCall) = 0

(***************************************************************************)
(* C8: a request with jsonrpc "2.0" whose params is not an array gets      *)
(* exactly one InvalidParams (-32602) error response carrying the          *)
(* request's own id (0 if it has none), and no callback invocation.        *)
(***************************************************************************)
C8_InvalidParams ==
  (/\ JustHandled
   /\ Parses(LastHanded)
   /\ GetMember(LastDoc, T_jsonrpc) = JStr(T_2_0)
   /\ ~is_JsonArray(GetMember(LastDoc, T_params))) =>
     /\ InLastCall(IsEnvelope) = 1
     /\ InLastCall(IsInvalidParamsError) = 1
     /\ InLastCall(IsCall) = 0
     /\ (LastHanded = R_objparams => IdOf(LastDoc) = -3)
     /\ (LastHanded = R_noparams => IdOf(LastDoc) = 0)

\* the request with id -3 and an object for params has been answered
C8_Witness ==
  /\ JustHandled
  /\ LastHanded = R_objparams
  /\ InLastCall(IsInvalidParamsError) = 1

(***************************************************************************)
(* C9: a valid request (jsonrpc "2.0", params an array) makes the core     *)
(* invoke the callback exactly once with the request's id (0 if absent),   *)
(* its method ("" if absent) and the params in order, one string each;     *)
(* the core itself writes nothing for the message (whatever is written is  *)
(* written by the callback, between its call and its return).              *)
(***************************************************************************)
TheCall == log[LastDelimiter + 2]

C9_Dispatch ==
  (JustHandled /\ ValidRequest(LastHanded)) =>
     /\ InLastCall(IsCall) = 1
     /\ IsCall(TheCall)
     /\ TheCall.id = IdOf(LastDoc)
     /\ TheCall.method = MethodOf(LastDoc)
     /\ Len(TheCall.params) = Len(GetMember(LastDoc, T_params).a)
     /\ \A k \in 1..Len(TheCall.params) :
          TheCall.params[k] = as_String(GetMember(LastDoc, T_params).a[k])
     /\ (LastHanded = R_ping =>
           TheCall = EvCall(7, T_ping, <<>>))
     /\ (LastHanded = R_bare =>
           TheCall = EvCall(0, <<>>, << <<"a">>, <<"1","2">>, T_true,
                                        <<"[","1","]">> >>))
     /\ InLastCall(IsEnvelope) =
          CountBetween(IsEnvelope, LastDelimiter + 2,
                       After(Where(IsCalled), LastDelimiter))
     /\ After(Where(IsCalled), LastDelimiter) = Len(log) - 1

\* the request without id and method, with four params, has been dispatched
C9_Witness ==
  /\ JustHandled
  /\ LastHanded = R_bare
  /\ InLastCall(IsCall) = 1

(***************************************************************************)
(* C10: a message (the bytes accumulated when the delimiter arrives, an    *)
(* empty message included) that does not parse as JSON gets an error       *)
(* response with id 0, code -32700 and message "Parse error"; the cursor   *)
(* is then 0 and the callback is not invoked.                              *)
(***************************************************************************)
C10_ParseError ==
  (JustHandled /\ ~Parses(LastHanded)) =>
     /\ InLastCall(IsEnvelope) = 1
     /\ InLastCall(IsParseError) = 1
     /\ InLastCall(IsCall) = 0
     /\ serial_read_buffer_pos = 0

\* an empty message has been answered with a parse error
C10_Witness ==
  /\ JustHandled
  /\ LastHanded = <<>>
  /\ InLastCall(IsParseError) = 1

(***************************************************************************)
(* A loop() call that meets an overflow.  With the cursor at position      *)
(* serial_read_buffer_pos, the byte that arrives while position >= capacity*)
(* is byte OverflowAt of the pending input, provided no delimiter comes    *)
(* before it.                                                              *)
(***************************************************************************)
OverflowAt == _JSON_RPC_BUFFER_SIZE - serial_read_buffer_pos + 1

Overflows ==
  /\ Len(rx) >= OverflowAt
  /\ \A k \in 1..OverflowAt : rx[k] # _END_OF_JSON_RPC_MESSAGE

T_MessageTooLarge == <<"m","e","s","s","a","g","e"," ","t","o","o"," ","l","a","r","g","e">>

\* the call reads up to the overflowing byte, writes one error response
\* with this detail text, resets the cursor and returns
OverflowStep(detail) ==
  /\ Len(log') = Len(log) + OverflowAt + 5
  /\ SubSeq(log', 1, Len(log)) = log
  /\ log'[Len(log) + 1] = EvLoop
  /\ \A k \in 1..OverflowAt : log'[Len(log) + 1 + k] = EvRead(rx[k])
  /\ IsError(log'[Len(log) + OverflowAt + 2], 0, INVALID_REQUEST)
  /\ ErrorMessage(log'[Len(log) + OverflowAt + 2]) = JStr(T_InvalidRequest)
  /\ ErrorData(log'[Len(log) + OverflowAt + 2]) = JStr(detail)
  /\ log'[Len(log) + OverflowAt + 3] = EvWrite(<<_END_OF_JSON_RPC_MESSAGE>>)
  /\ log'[Len(log) + OverflowAt + 4] = EvFlush
  /\ log'[Len(log) + OverflowAt + 5] = EvReturn
  /\ serial_read_buffer_pos' = 0
  /\ rx' = SubSeq(rx, OverflowAt + 1, Len(rx))

(***************************************************************************)
(* C11 (as stated): when a non-delimiter byte arrives while position >=    *)
(* capacity, loop() writes an error response with id 0, code -32600,       *)
(* message "Invalid Request" and detail text "message too large", resets   *)
(* position to 0 and stops draining for that call.                         *)
(***************************************************************************)
C11_Original ==
  [][(Overflows /\ log' # log) => OverflowStep(T_MessageTooLarge)]_vars

(***************************************************************************)
(* C11 (amended): the same, the detail text being the one the code sends,  *)
(* "JSON RPC message is to large".                                         *)
(***************************************************************************)
C11_Overflow ==
  [][(Overflows /\ log' # log) => OverflowStep(T_TooLarge)]_vars

\* the last loop() call ended on an overflow
C11_Witness ==
  /\ Len(log) >= 5
  /\ IsOverflowError(log[Len(log) - 3])
  /\ log[Len(log)] = EvReturn
  /\ serial_read_buffer_pos = 0

(***************************************************************************)
(* C12: in every reachable state 0 <= position <= capacity, and every      *)
(* write to the receive buffer landed at an index in 0..capacity-1 (no     *)
(* byte is held outside the array).                                        *)
(***************************************************************************)
C12_InBounds ==
  /\ serial_read_buffer_pos >= 0
  /\ serial_read_buffer_pos <= _JSON_RPC_BUFFER_SIZE
  /\ DOMAIN serial_read_buffer = 0..(_JSON_RPC_BUFFER_SIZE - 1)

\* the buffer is exactly full: its last index has been written
C12_Witness ==
  /\ serial_read_buffer_pos = _JSON_RPC_BUFFER_SIZE
  /\ serial_read_buffer[_JSON_RPC_BUFFER_SIZE - 1] = "x"

(***************************************************************************)
(* Reading the trace of calls of the public interface                      *)
(***************************************************************************)
IsSend(e) == e.e = "send"
IsSendError(e) == e.e = "send" /\ e.op = "send_error"
IsSendBytes(e) == e.e = "send" /\ e.op = "send_result_bytes"
IsDecode(e) == e.e = "decode"

\* this step is a call of a send operation; the call is NewCall
SendStep == Len(log') > Len(log) /\ IsSend(log'[Len(log) + 1])
NewCall == log'[Len(log) + 1]

\* the call wrote one envelope with jsonrpc "2.0" and its id, then one
\* delimiter byte, then flushed, and nothing else
OneEnvelope ==
  /\ Len(log') = Len(log) + 4
  /\ IsEnvelope(log'[Len(log) + 2])
  /\ GetMember(Decoded(log'[Len(log) + 2]), T_jsonrpc) = JStr(T_2_0)
  /\ GetMember(Decoded(log'[Len(log) + 2]), T_id) = JInt(NewCall.id)
  /\ log'[Len(log) + 3] = EvWrite(<<_END_OF_JSON_RPC_MESSAGE>>)
  /\ log'[Len(log) + 4] = EvFlush

(***************************************************************************)
(* C13: each send operation (send_result_string, send_result_bytes,        *)
(* send_result_longs, send_error) writes exactly one envelope carrying     *)
(* jsonrpc "2.0" and the caller's id, then exactly one delimiter byte,     *)
(* then flushes, in that order, and leaves the receive buffer and the      *)
(* position unchanged.                                                     *)
(***************************************************************************)
C13_SendSequence ==
  [][SendStep =>
       /\ OneEnvelope
       /\ UNCHANGED <<serial_read_buffer, serial_read_buffer_pos>>]_vars

\* the error object the response after call i carries
ErrorObject(i) == GetMember(Decoded(log[i + 1]), T_error)

(***************************************************************************)
(* C14: send_error called with a null error_data completes normally and    *)
(* writes an error object with code and message and no data member; called *)
(* with data, the object holds that data string.                           *)
(***************************************************************************)
C14_OptionalData ==
  \A i \in Where(IsSendError) :
    /\ ~crashed
    /\ Len(log) >= i + 3
    /\ IsEnvelope(log[i + 1])
    /\ log[i + 3] = EvFlush
    /\ GetMember(ErrorObject(i), T_code) = JInt(log[i].data.code)
    /\ GetMember(ErrorObject(i), T_message) = JStr(log[i].data.message)
    /\ IF log[i].data.data.null
       THEN ~containsKey(ErrorObject(i), T_data)
       ELSE GetMember(ErrorObject(i), T_data) = JStr(log[i].data.data.s)

\* the operation was given its inputs as the interface declares them
WithData(e) == e.op = "send_error" => ~e.data.data.null

(***************************************************************************)
(* C15: for every valid input of each send operation (strings holding      *)
(* characters that must be escaped included) the byte size computed before *)
(* the document is constructed is >= the length of the serialized response.*)
(***************************************************************************)
C15_SizeBound ==
  \A i \in Where(IsSend) :
    (WithData(log[i]) /\ i < Len(log) /\ IsEnvelope(log[i + 1])) =>
       log[i].capacity >= Len(log[i + 1].bytes)

(***************************************************************************)
(* json_array_to_byte_array seen from its caller                           *)
(***************************************************************************)
\* the elements of the JSON array the text holds
Elements(raw_json) ==
  as_JsonArray(deserializeJson(raw_json, Len(raw_json)).val)

\* the codes of JsonRpcErrorCode
RpcErrorCodes ==
  {0, PARSE_ERROR, INVALID_REQUEST, METHOD_NOT_FOUND, INVALID_PARAMS,
   INTERNAL_ERROR, UNKNOWN_ERROR} \cup ((SERVER_ERROR - 99)..SERVER_ERROR)

\* a code converted to size_t
CodeAsSizeT(c, bits) ==
  IF c >= 0 THEN SizeT(c)
  ELSE [hi |-> IF bits = 32 THEN HalfWord - 1 ELSE 0, lo |-> HalfWord + c]

\* a size_t value read back as a signed integer
AsSigned(w, bits) ==
  IF bits = 32
  THEN (IF w.hi >= HalfWord \div 2 THEN w.hi - HalfWord ELSE w.hi) * HalfWord
       + w.lo
  ELSE IF w.lo >= HalfWord \div 2 THEN w.lo - HalfWord ELSE w.lo

IsOverflowIndication(ret, array_size) ==
  /\ \A n \in 0..array_size : ret # SizeT(n)
  /\ \A c \in RpcErrorCodes, bits \in SizeBits :
       ret # CodeAsSizeT(c, bits) /\ AsSigned(ret, bits) # c

(***************************************************************************)
(* C16: json_array_to_byte_array on a JSON array of n elements with an     *)
(* output of max_size bytes: if n > max_size it returns an overflow        *)
(* indication that differs from every valid element count and from every   *)
(* RPC error code and writes nothing; if n <= max_size it writes exactly    *)
(* elements 0..n-1 and returns n; it never writes at an index >= max_size. *)
(***************************************************************************)
C16_DecodeBounds ==
  \A i \in Where(IsDecode) :
    /\ DOMAIN log[i].out.byte_array = 0..(log[i].array_size - 1)
    /\ IF Len(Elements(log[i].raw_json)) > log[i].array_size
       THEN /\ IsOverflowIndication(log[i].out.ret, log[i].array_size)
            /\ log[i].out.byte_array = Fresh(log[i].array_size)
       ELSE /\ log[i].out.ret = SizeT(Len(Elements(log[i].raw_json)))
            /\ \A k \in 0..(log[i].array_size - 1) :
                 log[i].out.byte_array[k] =
                   IF k < Len(Elements(log[i].raw_json))
                   THEN Elements(log[i].raw_json)[k + 1].n
                   ELSE Indeterminate

\* "[1,2,3]" was decoded into an array of two bytes
C16_Witness ==
  \E i \in Where(IsDecode) :
    /\ Len(Elements(log[i].raw_json)) = 3
    /\ log[i].array_size = 2
    /\ log[i].out.ret.lo = HalfWord - 1
    /\ log[i].out.byte_array = Fresh(2)

(***************************************************************************)
(* C17: round trip.  For every sequence b of unsigned bytes, the array in  *)
(* the result member of the response written by send_result_bytes(id, b)   *)
(* has as many elements as b, with the same values in the same order.      *)
(***************************************************************************)
C17_BytesRoundTrip ==
  \A i \in Where(IsSendBytes) :
    /\ Len(log) > i
    /\ IsEnvelope(log[i + 1])
    /\ GetMember(Decoded(log[i + 1]), T_result).t = "arr"
    /\ Len(GetMember(Decoded(log[i + 1]), T_result).a) = Len(log[i].data)
    /\ \A k \in 1..Len(log[i].data) :
         GetMember(Decoded(log[i + 1]), T_result).a[k] = JInt(log[i].data[k])

\* five bytes, 0 and 255 among them, came back
C17_Witness ==
  \E i \in Where(IsSendBytes) :
    /\ log[i].data = <<7, 0, 255, 10, 100>>
    /\ Len(log) > i
    /\ Len(GetMember(Decoded(log[i + 1]), T_result).a) = 5

(***************************************************************************)
(* Steps of loop() seen from outside                                       *)
(***************************************************************************)
\* this step is a loop() call that found bytes to read
LoopStep == log' # log

\* events of a kind among those the step added to the trace
Added(P(_)) == Len(SelectSeq(SubSeq(log', Len(log) + 1, Len(log')), P))

\* the step took the cursor back to 0 through a delimiter or an overflow:
\* the last byte it read was followed by the parse or by the overflow error
EndsInReset ==
  \E i \in (Len(log) + 1)..(Len(log') - 1) :
    /\ IsRead(log'[i])
    /\ IsParse(log'[i + 1]) \/ IsOverflowError(log'[i + 1])
    /\ \A k \in (i + 1)..Len(log') : ~IsRead(log'[k])

(***************************************************************************)
(* C18 (as stated): between loop() calls position is 0 (IDLE) or in        *)
(* 1..capacity-1 (ACCUMULATING); position = capacity is never a state the  *)
(* accumulator rests in.                                                   *)
(***************************************************************************)
C18_Original ==
  /\ serial_read_buffer_pos >= 0
  /\ serial_read_buffer_pos <= _JSON_RPC_BUFFER_SIZE - 1

(***************************************************************************)
(* C18 (amended): between loop() calls position is 0 (IDLE) or in          *)
(* 1..capacity, position = capacity (buffer exactly full) being a state    *)
(* the accumulator does rest in; and the only transitions back to IDLE are *)
(* message-ready (a delimiter) and overflow.                               *)
(***************************************************************************)
C18_Machine ==
  /\ [](/\ serial_read_buffer_pos >= 0
        /\ serial_read_buffer_pos <= _JSON_RPC_BUFFER_SIZE)
  /\ [][(LoopStep /\ serial_read_buffer_pos' = 0) => EndsInReset]_vars

\* a loop() call has returned leaving the buffer exactly full
C18_Witness ==
  /\ serial_read_buffer_pos = _JSON_RPC_BUFFER_SIZE
  /\ rx = <<>>
  /\ log # <<>>
  /\ log[Len(log)] = EvReturn

\* the receive buffer after the bytes rx[1..n] were stored from the cursor on
Stored(n) ==
  [k \in 0..(_JSON_RPC_BUFFER_SIZE - 1) |->
     IF k >= serial_read_buffer_pos /\ k < serial_read_buffer_pos + n
     THEN rx[k - serial_read_buffer_pos + 1]
     ELSE serial_read_buffer[k]]

(***************************************************************************)
(* C19: a delimiter arriving when the buffer is exactly full (position =   *)
(* capacity) is handled as a complete message of capacity bytes, with no   *)
(* overflow error; an overflow is reported only when a (capacity+1)-th     *)
(* byte that is not a delimiter arrives, and that byte is discarded, not   *)
(* stored.                                                                 *)
(***************************************************************************)
C19_DelimiterFirst ==
  [][LoopStep =>
       /\ (serial_read_buffer_pos = _JSON_RPC_BUFFER_SIZE
           /\ rx[1] = _END_OF_JSON_RPC_MESSAGE) =>
            /\ log'[Len(log) + 3] =
                 EvParse(BufferText(serial_read_buffer,
                                    _JSON_RPC_BUFFER_SIZE))
            /\ Added(IsOverflowError) = 0
            /\ serial_read_buffer_pos' = 0
       /\ Added(IsOverflowError) > 0 =>
            /\ Overflows
            /\ Added(IsOverflowError) = 1
            /\ serial_read_buffer' = Stored(OverflowAt - 1)
            /\ rx' = SubSeq(rx, OverflowAt + 1, Len(rx))
            /\ serial_read_buffer_pos' = 0]_vars

\* a message of exactly capacity bytes has been handed to the parser
C19_Witness ==
  /\ JustHandled
  /\ Len(LastHanded) = _JSON_RPC_BUFFER_SIZE
  /\ CountBetween(IsOverflowError, MessageStart, Len(log)) = 0

\* a loop() call made now with no byte available
IdleCall(ch) == loop(Entry, <<>>, ch)

(***************************************************************************)
(* C20: every call to loop() terminates: starting from position p it reads *)
(* at most capacity - p + 1 bytes and returns (on the first delimiter, on  *)
(* overflow, or when no byte is available), however many bytes are         *)
(* available; and a call made when no byte is available returns with       *)
(* position, buffer and transport output unchanged.                        *)
(***************************************************************************)
C20_Terminates ==
  /\ [](\A ch \in Choices :
          /\ IdleCall(ch).returned
          /\ IdleCall(ch).n = 0
          /\ IdleCall(ch).ev = <<EvLoop, EvReturn>>
          /\ IdleCall(ch).pos = serial_read_buffer_pos
          /\ IdleCall(ch).buf = serial_read_buffer)
  /\ [][LoopStep =>
          /\ Len(rx) - Len(rx') <=
               _JSON_RPC_BUFFER_SIZE - serial_read_buffer_pos + 1
          /\ Added(IsRead) = Len(rx) - Len(rx')
          /\ log'[Len(log')] = EvReturn]_vars

====
